---- MODULE Spec2Model ----
(***************************************************************************)
(* E-Library Organizer (src/app.py): a Streamlit script that is re-run    *)
(* from top to bottom on every user interaction.  The only state that     *)
(* survives a run is st.session_state.library; everything else is a local *)
(* of the run that rendered the current page.                             *)
(*                                                                         *)
(* Python strings are modelled as sequences of ASCII code points, so that *)
(* lower(), split(), strip(), isdigit(), the `in' substring test, slicing *)
(* and the ordering used by sorted() are computed, not assumed.  Python's *)
(* None is the empty tuple and a present value x is <<x>>.  A dict is a   *)
(* function whose DOMAIN is the set of keys that are present.             *)
(***************************************************************************)
EXTENDS Integers, Sequences, FiniteSets, TLC

VARIABLES
    library,          \* st.session_state.library: sequence of book_data dicts
    page,             \* the page the last run rendered ("" before any run)
    uploaded_file,    \* Upload page: the file in the uploader (None/<<file>>)
    catalog,          \* Upload page: the answer to the run's request (None: no request)
    requests,         \* Upload page: the queries sent by requests.get in the run
    metadata,         \* Upload page: result of extract_pdf_metadata
    book_data,        \* Upload page: the combined dict that is displayed
    clicked,          \* Upload page: what st.button("Add to Library") returned
    search_query,     \* My Library page: text of the search box
    sort_by,          \* My Library page: the selectbox value
    filtered_books,   \* My Library page: the filtered and sorted list
    genres,           \* My Library page: the insertion-ordered genre groups
    favorite_genre,   \* Recommendations page: most common genre
    recommendations   \* Recommendations page: get_recommendations result

vars == <<library, page, uploaded_file, catalog, requests, metadata, book_data,
          clicked, search_query, sort_by, filtered_books, genres, favorite_genre,
          recommendations>>

None == <<>>
Some(x) == <<x>>

----------------------------------------------------------------------------
(* Bounds of the model *)

MaxLib == 3        \* entries the session library may hold (Spec)
MaxShelf == 4      \* entries the session library may hold (SpecRecommend)
MaxAdds == 1       \* entries the session library may hold (SpecUpload)
MaxLines == 4      \* lines of a first page built from ResumeLines
MaxKeywordLines == 2   \* lines of a first page built from KeywordLines

----------------------------------------------------------------------------
(* Python str operations on sequences of code points *)

Min(a, b) == IF a < b THEN a ELSE b

\* s[:n]
Slice(s, n) == SubSeq(s, 1, Min(n, Len(s)))

\* str.lower() on ASCII
Lower(s) == [i \in 1..Len(s) |-> IF s[i] \in 65..90 THEN s[i] + 32 ELSE s[i]]

\* needle in hay
Contains(hay, needle) ==
    \E i \in 0..(Len(hay) - Len(needle)) :
        SubSeq(hay, i + 1, i + Len(needle)) = needle

\* char.isdigit() on ASCII
IsDigit(c) == c \in 48..57

\* the characters str.split() and str.strip() treat as whitespace (ASCII)
IsSpace(c) == c \in (9..13) \cup (28..32)

\* s.split('\n')
RECURSIVE SplitLines(_)
SplitLines(s) ==
    IF \A i \in 1..Len(s) : s[i] # 10
    THEN <<s>>
    ELSE LET k == CHOOSE i \in 1..Len(s) :
                      s[i] = 10 /\ \A j \in 1..(i - 1) : s[j] # 10
         IN <<SubSeq(s, 1, k - 1)>> \o SplitLines(SubSeq(s, k + 1, Len(s)))

\* len(s.split()): the number of maximal runs of non-whitespace
NumTokens(s) ==
    Cardinality({i \in 1..Len(s) :
                    ~IsSpace(s[i]) /\ (i = 1 \/ IsSpace(s[i - 1]))})

\* s.strip()
Strip(s) ==
    LET keep == {i \in 1..Len(s) : ~IsSpace(s[i])}
    IN IF keep = {} THEN <<>>
       ELSE LET lo == CHOOSE i \in keep : \A j \in keep : i <= j
                hi == CHOOSE i \in keep : \A j \in keep : j <= i
            IN SubSeq(s, lo, hi)

\* s.replace(" ", "+")
ReplaceSpace(s) == [i \in 1..Len(s) |-> IF s[i] = 32 THEN 43 ELSE s[i]]

\* a < b for Python str (code point order, a proper prefix is smaller)
StrLess(a, b) ==
    \E k \in 1..(Min(Len(a), Len(b)) + 1) :
        /\ \A j \in 1..(k - 1) : a[j] = b[j]
        /\ \/ k = Len(a) + 1 /\ k <= Len(b)
           \/ k <= Len(a) /\ k <= Len(b) /\ a[k] < b[k]

\* os.path.join(UPLOAD_DIR, name) for a relative name
PathJoin(dir, name) == dir \o <<47>> \o name

\* Path(p).name: the final path component
PathName(p) ==
    LET slashes == {i \in 1..Len(p) : p[i] = 47}
    IN IF slashes = {} THEN p
       ELSE SubSeq(p, (CHOOSE i \in slashes : \A j \in slashes : j <= i) + 1,
                   Len(p))

\* Path(p).stem: the final component without its last suffix
PathStem(p) ==
    LET name == PathName(p)
        dots == {i \in 1..Len(name) : name[i] = 46}
    IN IF dots = {} THEN name
       ELSE LET i == CHOOSE d \in dots : \A e \in dots : e <= d
            IN IF 1 < i /\ i < Len(name) THEN SubSeq(name, 1, i - 1) ELSE name

\* d.get(k, default) for a dict d
Get(d, k, default) == IF k \in DOMAIN d THEN d[k] ELSE default

----------------------------------------------------------------------------
(* String literals of app.py *)

s_Unknown == <<85,110,107,110,111,119,110>>                        \* "Unknown"
s_ResumeCV == <<82,101,115,117,109,101,47,67,86>>                  \* "Resume/CV"
s_Uncategorized == <<85,110,99,97,116,101,103,111,114,105,122,101,100>>  \* "Uncategorized"
s_Document == <<68,111,99,117,109,101,110,116>>                    \* "Document"
s_NoDescription ==                                    \* "No description available"
    <<78,111,32,100,101,115,99,114,105,112,116,105,111,110,32,
      97,118,97,105,108,97,98,108,101>>
s_Ellipsis == <<46,46,46>>                                         \* "..."
s_ProfessionalFor ==                                \* "Professional document for "
    <<80,114,111,102,101,115,115,105,111,110,97,108,32,100,111,99,117,109,
      101,110,116,32,102,111,114,32>>
s_DotSpace == <<46,32>>                                            \* ". "
UPLOAD_DIR == <<117,112,108,111,97,100,115>>                       \* "uploads"
RESUME_ICON == "https://cdn-icons-png.flaticon.com/512/3135/3135692.png"
DOCUMENT_ICON == "https://cdn-icons-png.flaticon.com/512/337/337946.png"

\* the keyword list of the is_resume test
ResumeKeywords == {
    <<114,101,115,117,109,101>>,                                   \* resume
    <<99,118>>,                                                    \* cv
    <<99,117,114,114,105,99,117,108,117,109,32,118,105,116,97,101>>,  \* curriculum vitae
    <<112,114,111,102,101,115,115,105,111,110,97,108,32,
      101,120,112,101,114,105,101,110,99,101>>,                    \* professional experience
    <<101,100,117,99,97,116,105,111,110>>,                         \* education
    <<115,107,105,108,108,115>>,                                   \* skills
    <<119,111,114,107,32,101,120,112,101,114,105,101,110,99,101>> }  \* work experience

s_Business == <<66,117,115,105,110,101,115,115>>                   \* "Business"
s_Technology == <<84,101,99,104,110,111,108,111,103,121>>          \* "Technology"
s_Science == <<83,99,105,101,110,99,101>>                          \* "Science"
s_Education == <<69,100,117,99,97,116,105,111,110>>                \* "Education"
s_Other == <<79,116,104,101,114>>                                  \* "Other"

\* the categories dict of fetch_book_info, in insertion order
categories == <<
    [category |-> s_Business, keywords |-> {
        <<98,117,115,105,110,101,115,115>>,                        \* business
        <<109,97,110,97,103,101,109,101,110,116>>,                 \* management
        <<102,105,110,97,110,99,101>>,                             \* finance
        <<109,97,114,107,101,116,105,110,103>>,                    \* marketing
        <<101,99,111,110,111,109,105,99,115>> }],                  \* economics
    [category |-> s_Technology, keywords |-> {
        <<112,114,111,103,114,97,109,109,105,110,103>>,            \* programming
        <<115,111,102,116,119,97,114,101>>,                        \* software
        <<99,111,109,112,117,116,101,114>>,                        \* computer
        <<116,101,99,104,110,111,108,111,103,121>>,                \* technology
        <<101,110,103,105,110,101,101,114,105,110,103>> }],        \* engineering
    [category |-> s_Science, keywords |-> {
        <<115,99,105,101,110,99,101>>,                             \* science
        <<112,104,121,115,105,99,115>>,                            \* physics
        <<99,104,101,109,105,115,116,114,121>>,                    \* chemistry
        <<98,105,111,108,111,103,121>>,                            \* biology
        <<114,101,115,101,97,114,99,104>> }],                      \* research
    [category |-> s_Education, keywords |-> {
        <<101,100,117,99,97,116,105,111,110>>,                     \* education
        <<108,101,97,114,110,105,110,103>>,                        \* learning
        <<116,101,97,99,104,105,110,103>>,                         \* teaching
        <<97,99,97,100,101,109,105,99>>,                           \* academic
        <<115,99,104,111,111,108>> }],                             \* school
    [category |-> s_Other, keywords |-> {}] >>

PreviewLen == 500        \* first_page_text[:500]
DescLen == 200           \* content_preview[:200]
ResumeDescLen == 150     \* content_preview[:150]
NameLines == 3           \* lines[:3]
TopN == 3                \* recommendations[:3]

----------------------------------------------------------------------------
(* extract_pdf_metadata                                                    *)
(*                                                                         *)
(* A pdf is what PyPDF2 yields for the saved file:                         *)
(*   readable        FALSE when anything inside the try block raises       *)
(*   title, author   reader.metadata.title / .author (None or <<str>>)     *)
(*   num_pages       len(reader.pages)                                     *)
(*   page_text       reader.pages[0].extract_text()                        *)
(***************************************************************************)

first_page_text(pdf) == IF pdf.num_pages > 0 THEN pdf.page_text ELSE <<>>

\* any(keyword in first_page_text.lower() for keyword in [...])
IsResumeText(text) == \E keyword \in ResumeKeywords : Contains(Lower(text), keyword)

\* faulty variant: "x if x is not None else default"
OrElse_NoneOnly(x, default) == IF x # None THEN x[1] ELSE default

\* x if x else default, for an optional string x
OrElse(x, default) == IF x # None /\ x[1] # <<>> THEN x[1] ELSE default

\* the condition of the name-line loop
IsNameLine(line) ==
    NumTokens(line) >= 2 /\ ~\E i \in 1..Len(line) : IsDigit(line[i])

\* faulty variant: the loop runs over every line, not lines[:3]
InferAuthor_AllLines(text, author) ==
    LET lines == SplitLines(text)
        hits == {i \in 1..Len(lines) : IsNameLine(lines[i])}
    IN IF hits = {} THEN author
       ELSE Strip(lines[CHOOSE i \in hits : \A j \in hits : i <= j])

\* the loop over lines[:3]: the first qualifying line, stripped
InferAuthor(text, author) ==
    LET lines == Slice(SplitLines(text), NameLines)
        hits == {i \in 1..Len(lines) : IsNameLine(lines[i])}
    IN IF hits = {} THEN author
       ELSE Strip(lines[CHOOSE i \in hits : \A j \in hits : i <= j])

extract_pdf_metadata(file_path, pdf) ==
    IF ~pdf.readable
    THEN [title |-> PathStem(file_path), author |-> s_Unknown, pages |-> 0,
          is_resume |-> FALSE, content_preview |-> <<>>]
    ELSE LET text == first_page_text(pdf)
             is_resume == IsResumeText(text)
             title == OrElse(pdf.title, PathStem(file_path))
             author == OrElse(pdf.author, s_Unknown)
         IN IF is_resume
            THEN [title |-> IF title = PathStem(file_path)
                            THEN s_ResumeCV ELSE title,
                  author |-> InferAuthor(text, author),
                  pages |-> pdf.num_pages,
                  is_resume |-> TRUE,
                  content_preview |-> Slice(text, PreviewLen)]
            ELSE [title |-> title, author |-> author, pages |-> pdf.num_pages,
                  is_resume |-> FALSE,
                  content_preview |-> Slice(text, PreviewLen)]

----------------------------------------------------------------------------
(* fetch_book_info                                                         *)
(*                                                                         *)
(* A response is what the request yields:                                  *)
(*   raised   TRUE when requests.get or response.json() raises             *)
(*   data     the decoded JSON document (dicts and lists)                  *)
(***************************************************************************)

EmptyDict == <<>>

\* the query part of the request URL
Query(title, author) == ReplaceSpace(title \o <<32>> \o author)

\* 'items' in data and len(data['items']) > 0
HasItems(data) == "items" \in DOMAIN data /\ Len(data["items"]) > 0

\* whether the try block raises: the request or the decoding fails, the
\* first item has no volumeInfo, or [0] indexes an empty list
LookupRaises(author, response) ==
    \/ response.raised
    \/ /\ HasItems(response.data)
       /\ LET item == response.data["items"][1]
          IN \/ "volumeInfo" \notin DOMAIN item
             \/ Get(item["volumeInfo"], "authors", <<author>>) = <<>>
             \/ Get(item["volumeInfo"], "categories", <<s_Uncategorized>>) = <<>>

\* the dict returned from inside the try block
CatalogInfo(title, author, data) ==
    LET book_info == data["items"][1]["volumeInfo"]
        imageLinks == Get(book_info, "imageLinks", EmptyDict)
    IN [title |-> Get(book_info, "title", title),
        author |-> Get(book_info, "authors", <<author>>)[1],
        genre |-> Get(book_info, "categories", <<s_Uncategorized>>)[1],
        description |-> Get(book_info, "description", s_NoDescription),
        thumbnail |-> IF "thumbnail" \in DOMAIN imageLinks
                      THEN Some(imageLinks["thumbnail"]) ELSE None]

\* faulty variant: the loop keeps going after a hit, so the last bucket wins
KeywordInfo_LastBucket(title, author, content_preview) ==
    LET content_lower == Lower(content_preview)
        hits == {i \in 1..Len(categories) :
                    \E keyword \in categories[i].keywords :
                        Contains(content_lower, keyword)}
    IN IF hits # {}
       THEN [title |-> title, author |-> author,
             genre |-> categories[CHOOSE i \in hits : \A j \in hits : j <= i].category,
             description |-> Slice(content_preview, DescLen) \o s_Ellipsis,
             thumbnail |-> None]
       ELSE [title |-> title, author |-> author, genre |-> s_Document,
             description |-> Slice(content_preview, DescLen) \o s_Ellipsis,
             thumbnail |-> Some(DOCUMENT_ICON)]

\* the categorisation that follows the try block
KeywordInfo(title, author, content_preview) ==
    LET content_lower == Lower(content_preview)
        hits == {i \in 1..Len(categories) :
                    \E keyword \in categories[i].keywords :
                        Contains(content_lower, keyword)}
    IN IF hits # {}
       THEN [title |-> title, author |-> author,
             genre |-> categories[CHOOSE i \in hits : \A j \in hits : i <= j].category,
             description |-> Slice(content_preview, DescLen) \o s_Ellipsis,
             thumbnail |-> None]
       ELSE [title |-> title, author |-> author, genre |-> s_Document,
             description |-> Slice(content_preview, DescLen) \o s_Ellipsis,
             thumbnail |-> Some(DOCUMENT_ICON)]

\* the dict for a resume, returned before any request is built
ResumeInfo(title, author, content_preview) ==
    [title |-> title, author |-> author, genre |-> s_ResumeCV,
     description |-> s_ProfessionalFor \o author \o s_DotSpace
                     \o Slice(content_preview, ResumeDescLen) \o s_Ellipsis,
     thumbnail |-> Some(RESUME_ICON)]

\* faulty variant: the is_resume test is missing, every upload is looked up
fetch_book_info_AlwaysLookup(title, author, content_preview, is_resume, response) ==
    [requests |-> <<Query(title, author)>>,
     info |-> IF ~LookupRaises(author, response) /\ HasItems(response.data)
              THEN CatalogInfo(title, author, response.data)
              ELSE KeywordInfo(title, author, content_preview)]

\* faulty variant: the except clause returns the default document record at once
fetch_book_info_ExceptReturns(title, author, content_preview, is_resume, response) ==
    IF is_resume
    THEN [info |-> ResumeInfo(title, author, content_preview), requests |-> <<>>]
    ELSE [requests |-> <<Query(title, author)>>,
          info |-> IF LookupRaises(author, response)
                   THEN [title |-> title, author |-> author,
                         genre |-> s_Document,
                         description |-> Slice(content_preview, DescLen) \o s_Ellipsis,
                         thumbnail |-> Some(DOCUMENT_ICON)]
                   ELSE IF HasItems(response.data)
                        THEN CatalogInfo(title, author, response.data)
                        ELSE KeywordInfo(title, author, content_preview)]

\* info: the returned dict; requests: the queries sent to the catalog
fetch_book_info(title, author, content_preview, is_resume, response) ==
    IF is_resume
    THEN [info |-> ResumeInfo(title, author, content_preview), requests |-> <<>>]
    ELSE [requests |-> <<Query(title, author)>>,
          info |-> IF ~LookupRaises(author, response) /\ HasItems(response.data)
                   THEN CatalogInfo(title, author, response.data)
                   ELSE KeywordInfo(title, author, content_preview)]

----------------------------------------------------------------------------
(* get_recommendations and the view computations of the pages *)

\* book in books (dict equality is equality of all fields)
InList(book, books) == \E i \in 1..Len(books) : books[i] = book

\* faulty variant: "and book not in recommendations" is missing
RECURSIVE CollectGenre_NoDedup(_, _)
CollectGenre_NoDedup(genre, books) ==
    IF books = <<>> THEN <<>>
    ELSE LET acc == CollectGenre_NoDedup(genre, SubSeq(books, 1, Len(books) - 1))
             book == books[Len(books)]
         IN IF book.genre = genre THEN Append(acc, book) ELSE acc

\* the loop of get_recommendations, before the final slice
RECURSIVE CollectGenre(_, _)
CollectGenre(genre, books) ==
    IF books = <<>> THEN <<>>
    ELSE LET acc == CollectGenre(genre, SubSeq(books, 1, Len(books) - 1))
             book == books[Len(books)]
         IN IF book.genre = genre /\ ~InList(book, acc)
            THEN Append(acc, book) ELSE acc

get_recommendations(genre, books) == Slice(CollectGenre(genre, books), TopN)

\* faulty variant: the query is not lowercased
MatchesQuery_CaseSensitive(book, query) ==
    \/ Contains(Lower(book.title), query)
    \/ Contains(Lower(book.author), query)
    \/ Contains(Lower(book.genre), query)

\* the condition of the search list comprehension
MatchesQuery(book, query) ==
    \/ Contains(Lower(book.title), Lower(query))
    \/ Contains(Lower(book.author), Lower(query))
    \/ Contains(Lower(book.genre), Lower(query))

\* filtered_books before sorting
RECURSIVE SearchBooks(_, _)
SearchBooks(books, query) ==
    IF query = <<>> \/ books = <<>> THEN books
    ELSE LET rest == SearchBooks(Tail(books), query)
         IN IF MatchesQuery(Head(books), query)
            THEN <<Head(books)>> \o rest ELSE rest

\* the key function selected by the "Sort by" box
SortKey(book, by) ==
    CASE by = "Title" -> book.title
      [] by = "Author" -> book.author
      [] OTHER -> book.genre

\* sorted(books, key=...): stable, ascending
RECURSIVE SortedBy(_, _)
SortedBy(books, by) ==
    IF books = <<>> THEN <<>>
    ELSE LET x == Head(books)
             rest == SortedBy(Tail(books), by)
             k == Cardinality({i \in 1..Len(rest) :
                                  StrLess(SortKey(rest[i], by), SortKey(x, by))})
         IN SubSeq(rest, 1, k) \o <<x>> \o SubSeq(rest, k + 1, Len(rest))

\* the keys of a dict filled by one pass over books, in insertion order
RECURSIVE GenreKeys(_)
GenreKeys(books) ==
    IF books = <<>> THEN <<>>
    ELSE LET keys == GenreKeys(SubSeq(books, 1, Len(books) - 1))
             genre == books[Len(books)].genre
         IN IF \E i \in 1..Len(keys) : keys[i] = genre
            THEN keys ELSE Append(keys, genre)

\* the genres dict of the My Library page, as (genre, books) in key order
GroupByGenre(books) ==
    LET keys == GenreKeys(books)
    IN [i \in 1..Len(keys) |->
           [genre |-> keys[i],
            books |-> SelectSeq(books, LAMBDA b : b.genre = keys[i])]]

\* genre_count[genre] after the counting loop
GenreCount(books, genre) ==
    Cardinality({i \in 1..Len(books) : books[i].genre = genre})

\* faulty variant: the last key with the largest count
FavoriteGenre_LastMax(books) ==
    LET keys == GenreKeys(books)
        best == {i \in 1..Len(keys) :
                    \A j \in 1..Len(keys) :
                        GenreCount(books, keys[j]) <= GenreCount(books, keys[i])}
    IN keys[CHOOSE i \in best : \A j \in best : j <= i]

\* max(genre_count, key=genre_count.get): the first key with the largest count
FavoriteGenre(books) ==
    LET keys == GenreKeys(books)
        best == {i \in 1..Len(keys) :
                    \A j \in 1..Len(keys) :
                        GenreCount(books, keys[j]) <= GenreCount(books, keys[i])}
    IN keys[CHOOSE i \in best : \A j \in best : i <= j]

----------------------------------------------------------------------------
(* The inputs the runs are given *)

t_JaneDoe == <<32,74,97,110,101,32,68,111,101,32>>   \* ' Jane Doe '
t_2024CV == <<50,48,50,52,32,67,86>>   \* '2024 CV'
t_WorkExperience == <<87,111,114,107,32,69,120,112,101,114,105,101,110,99,101>>   \* 'Work Experience'
t_Skills == <<83,107,105,108,108,115>>   \* 'Skills'
t_Business == <<66,117,115,105,110,101,115,115>>   \* 'Business'
t_programming == <<112,114,111,103,114,97,109,109,105,110,103>>   \* 'programming'
t_physics == <<112,104,121,115,105,99,115>>   \* 'physics'
t_school == <<115,99,104,111,111,108>>   \* 'school'
t_Dune == <<68,117,110,101>>   \* 'Dune'
t_dune == <<100,117,110,101>>   \* 'dune'
t_FrankHerbert == <<70,114,97,110,107,32,72,101,114,98,101,114,116>>   \* 'Frank Herbert'
t_CleanCode == <<67,108,101,97,110,32,67,111,100,101>>   \* 'Clean Code'
t_BobMartin == <<66,111,98,32,77,97,114,116,105,110>>   \* 'Bob Martin'
t_PatLee == <<80,97,116,32,76,101,101>>   \* 'Pat Lee'
t_Computers == <<67,111,109,112,117,116,101,114,115>>   \* 'Computers'
t_Fiction == <<70,105,99,116,105,111,110>>   \* 'Fiction'
t_Blurb == <<65,32,100,101,115,101,114,116,32,112,108,97,110,101,116>>   \* 'A desert planet'
n_dune == <<100,117,110,101,46,112,100,102>>   \* 'dune.pdf'
n_notes == <<109,121,46,110,111,116,101,115,46,112,100,102>>   \* 'my.notes.pdf'
n_cv == <<99,118,46,112,100,102>>   \* 'cv.pdf'
n_code == <<99,111,100,101,46,112,100,102>>   \* 'code.pdf'
t_CvPage == <<74,111,104,110,32,83,109,105,116,104,10,67,117,114,114,105,99,117,108,117,109,32,86,105,116,97,101>>   \* 'John Smith\nCurriculum Vitae'
t_software == <<115,111,102,116,119,97,114,101>>   \* 'software'
t_SchoolOfSoftware == <<115,99,104,111,111,108,32,111,102,32,115,111,102,116,119,97,114,101>>   \* 'school of software'
q_UN == <<85,78>>   \* 'UN'
q_tech == <<116,101,99,104>>   \* 'tech'

THUMB_URL == "http://books.google.com/books/content?id=1"

\* '\n'.join(lines)
RECURSIVE JoinLines(_)
JoinLines(lines) ==
    IF Len(lines) = 1 THEN lines[1]
    ELSE lines[1] \o <<10>> \o JoinLines(Tail(lines))

SeqsUpTo(S, n) == UNION {[1..k -> S] : k \in 1..n}

\* first lines of a resume: a name with blanks around it, a line with
\* digits, a two-word heading, a one-word heading
ResumeLines == {t_JaneDoe, t_2024CV, t_WorkExperience, t_Skills}

\* one keyword of each of the four non-empty buckets
KeywordLines == {t_Business, t_programming, t_physics, t_school}

PageTexts ==
    {JoinLines(ls) : ls \in SeqsUpTo(ResumeLines, MaxLines)}
    \cup {JoinLines(ls) : ls \in SeqsUpTo(KeywordLines, MaxKeywordLines)}

\* reader.metadata: nothing, both fields, empty strings, a title that is
\* the file's stem
DocInfos == {
    [title |-> None, author |-> None],
    [title |-> Some(t_Dune), author |-> Some(t_FrankHerbert)],
    [title |-> Some(<<>>), author |-> Some(<<>>)],
    [title |-> Some(t_dune), author |-> None] }

Unreadable == [readable |-> FALSE, title |-> None, author |-> None,
               num_pages |-> 0, page_text |-> <<>>]

AllFiles ==
    {[name |-> n_dune,
      pdf |-> [readable |-> TRUE, title |-> i.title, author |-> i.author,
               num_pages |-> 12, page_text |-> t]] :
        i \in DocInfos, t \in PageTexts}
    \cup {[name |-> n_notes, pdf |-> Unreadable],
          [name |-> n_dune,
           pdf |-> [readable |-> TRUE, title |-> None, author |-> None,
                    num_pages |-> 0, page_text |-> <<>>]]}

\* a response whose only item carries volumeInfo
Match(volumeInfo) ==
    [raised |-> FALSE, data |-> [items |-> <<[volumeInfo |-> volumeInfo]>>]]

NetworkError == [raised |-> TRUE, data |-> EmptyDict]

FullMatch ==
    [raised |-> FALSE,
     data |-> [items |-> <<
        [volumeInfo |-> [title |-> t_CleanCode,
                         authors |-> <<t_BobMartin, t_PatLee>>,
                         categories |-> <<s_Technology, t_Computers>>,
                         description |-> t_Blurb,
                         imageLinks |-> [thumbnail |-> THUMB_URL]]],
        [volumeInfo |-> [title |-> t_Dune]] >>]]

AllCatalog == {
    NetworkError,
    [raised |-> FALSE, data |-> EmptyDict],
    [raised |-> FALSE, data |-> [items |-> <<>>]],
    [raised |-> FALSE, data |-> [items |-> <<EmptyDict>>]],
    FullMatch,
    Match(EmptyDict),
    Match([title |-> t_CleanCode, imageLinks |-> EmptyDict]),
    Match([authors |-> <<t_BobMartin>>, categories |-> <<t_Fiction>>]),
    Match([title |-> t_CleanCode, authors |-> <<>>]),
    Match([title |-> t_CleanCode, categories |-> <<>>]),
    Match([title |-> <<>>, authors |-> << <<>> >>, categories |-> << <<>> >>,
           description |-> <<>>]) }

\* the files and answers of the browsing session
SessionFiles == {
    [name |-> n_cv,
     pdf |-> [readable |-> TRUE, title |-> None, author |-> None,
              num_pages |-> 2, page_text |-> t_CvPage]],
    [name |-> n_code,
     pdf |-> [readable |-> TRUE, title |-> Some(t_CleanCode), author |-> None,
              num_pages |-> 40, page_text |-> t_software]],
    [name |-> n_dune,
     pdf |-> [readable |-> TRUE, title |-> Some(t_Dune),
              author |-> Some(t_FrankHerbert),
              num_pages |-> 12, page_text |-> t_SchoolOfSoftware]] }

SessionCatalog == {NetworkError, FullMatch}

\* the empty query, one that meets a title and an author, one that meets a genre
Queries == {<<>>, q_UN, q_tech}

SortOptions == {"Title", "Author", "Genre"}

----------------------------------------------------------------------------
(* The pages: one action per run of the script *)

\* what one run of the Upload page computes for the file in the uploader
UploadRun(f, response) ==
    LET file_path == PathJoin(UPLOAD_DIR, f.name)
        md == extract_pdf_metadata(file_path, f.pdf)
        fetched == fetch_book_info(md.title, md.author, md.content_preview,
                                   md.is_resume, response)
        book_info == fetched.info
    IN [metadata |-> md,
        requests |-> fetched.requests,
        book_data |-> [file_path |-> file_path,
                       title |-> book_info.title,
                       author |-> book_info.author,
                       genre |-> book_info.genre,
                       pages |-> md.pages,
                       description |-> book_info.description,
                       thumbnail |-> book_info.thumbnail]]

\* the answers a run for f can receive out of `answers': an answer exists
\* only when the run sends a request, so one stands for all when it sends none
AnswersTo(f, answers) ==
    IF UploadRun(f, NetworkError).requests = <<>> THEN {NetworkError}
    ELSE answers

\* the Upload page with a file in the uploader; button is the value
\* st.button("Add to Library") returns in this run
UploadBooks(f, answers, button, cap) ==
    /\ button => Len(library) < cap
    /\ \E response \in AnswersTo(f, answers) :
       \E run \in {UploadRun(f, response)} :
       /\ clicked' = button
       /\ page' = "Upload Books"
       /\ uploaded_file' = Some(f)
       /\ catalog' = IF run.requests = <<>> THEN None ELSE Some(response)
       /\ requests' = run.requests
       /\ metadata' = Some(run.metadata)
       /\ book_data' = Some(run.book_data)
       /\ library' = IF button THEN Append(library, run.book_data) ELSE library
       /\ search_query' = None /\ sort_by' = None /\ filtered_books' = None
       /\ genres' = None /\ favorite_genre' = None /\ recommendations' = None

\* the Upload page while the uploader is empty
UploadNothing ==
    /\ page' = "Upload Books"
    /\ uploaded_file' = None /\ requests' = <<>> /\ catalog' = None
    /\ metadata' = None /\ book_data' = None /\ clicked' = FALSE
    /\ search_query' = None /\ sort_by' = None /\ filtered_books' = None
    /\ genres' = None /\ favorite_genre' = None /\ recommendations' = None
    /\ UNCHANGED library

UploadPage ==
    \E f \in SessionFiles, button \in BOOLEAN :
        UploadBooks(f, SessionCatalog, button, MaxLib)

\* faulty variant: filtered_books aliases the library and is sorted in place
MyLibrary_SortInPlace(query, by) ==
    /\ page' = "My Library"
    /\ uploaded_file' = None /\ requests' = <<>> /\ catalog' = None
    /\ metadata' = None /\ book_data' = None /\ clicked' = FALSE
    /\ favorite_genre' = None /\ recommendations' = None
    /\ IF library = <<>>
       THEN /\ search_query' = None /\ sort_by' = None
            /\ filtered_books' = None /\ genres' = None
            /\ UNCHANGED library
       ELSE \E shown \in {SortedBy(SearchBooks(library, query), by)} :
               /\ search_query' = Some(query)
               /\ sort_by' = Some(by)
               /\ filtered_books' = Some(shown)
               /\ genres' = Some(GroupByGenre(shown))
               /\ library' = IF query = <<>> THEN shown ELSE library

\* the My Library page
MyLibrary(query, by) ==
    /\ page' = "My Library"
    /\ uploaded_file' = None /\ requests' = <<>> /\ catalog' = None
    /\ metadata' = None /\ book_data' = None /\ clicked' = FALSE
    /\ favorite_genre' = None /\ recommendations' = None
    /\ IF library = <<>>
       THEN /\ search_query' = None /\ sort_by' = None
            /\ filtered_books' = None /\ genres' = None
       ELSE \E shown \in {SortedBy(SearchBooks(library, query), by)} :
               /\ search_query' = Some(query)
               /\ sort_by' = Some(by)
               /\ filtered_books' = Some(shown)
               /\ genres' = Some(GroupByGenre(shown))
    /\ UNCHANGED library

LibraryPage == \E query \in Queries, by \in SortOptions : MyLibrary(query, by)

\* the Recommendations page
RecommendationsPage ==
    /\ page' = "Recommendations"
    /\ uploaded_file' = None /\ requests' = <<>> /\ catalog' = None
    /\ metadata' = None /\ book_data' = None /\ clicked' = FALSE
    /\ search_query' = None /\ sort_by' = None /\ filtered_books' = None
    /\ genres' = None
    /\ IF library = <<>>
       THEN favorite_genre' = None /\ recommendations' = None
       ELSE \E genre \in {FavoriteGenre(library)} :
               /\ favorite_genre' = Some(genre)
               /\ recommendations' = Some(get_recommendations(genre, library))
    /\ UNCHANGED library

Init ==
    /\ library = <<>>
    /\ page = ""
    /\ uploaded_file = None
    /\ catalog = None
    /\ requests = <<>>
    /\ metadata = None /\ book_data = None /\ clicked = FALSE
    /\ search_query = None /\ sort_by = None /\ filtered_books = None
    /\ genres = None /\ favorite_genre = None /\ recommendations = None

Next == UploadNothing \/ UploadPage \/ LibraryPage \/ RecommendationsPage

Spec == Init /\ [][Next]_vars

\* A session in which only the Upload and Recommendations pages are visited.
UploadShelf ==
    \E f \in SessionFiles, button \in BOOLEAN :
        UploadBooks(f, SessionCatalog, button, MaxShelf)

NextRecommend == UploadShelf \/ RecommendationsPage

SpecRecommend == Init /\ [][NextRecommend]_vars

\* One upload looked at on its own: the user keeps one file in the uploader
\* and the page is re-run with or without a click on "Add to Library".  The
\* endpoint answers anything the first time it is asked and repeats that
\* answer afterwards, the query being the same.
InitUpload ==
    /\ library = <<>>
    /\ page = ""
    /\ uploaded_file \in {Some(f) : f \in AllFiles}
    /\ catalog = None
    /\ requests = <<>>
    /\ metadata = None /\ book_data = None /\ clicked = FALSE
    /\ search_query = None /\ sort_by = None /\ filtered_books = None
    /\ genres = None /\ favorite_genre = None /\ recommendations = None

UploadRerun ==
    \E button \in BOOLEAN :
        UploadBooks(uploaded_file[1],
                    IF catalog = None THEN AllCatalog ELSE {catalog[1]},
                    button, MaxAdds)

NextUpload == UploadRerun

SpecUpload == InitUpload /\ [][NextUpload]_vars

----------------------------------------------------------------------------
(* Properties of one upload (SpecUpload) *)

\* the run of the Upload page has processed the file in the uploader
Processed == page = "Upload Books" /\ metadata # None /\ book_data # None

\* the first match of the answer, when the lookup succeeds and has one
FirstMatch ==
    IF /\ catalog # None
       /\ ~catalog[1].raised
       /\ "items" \in DOMAIN catalog[1].data
       /\ Len(catalog[1].data["items"]) > 0
       /\ "volumeInfo" \in DOMAIN catalog[1].data["items"][1]
    THEN Some(catalog[1].data["items"][1]["volumeInfo"])
    ELSE None

\* the lookup fails (network error or undecodable body), or its answer is
\* malformed (an item without volumeInfo) or holds no match
LookupFailed == catalog # None /\ FirstMatch = None

\* the bucket a lowercased preview falls in, in the order Business,
\* Technology, Science, Education, and "Document" when it falls in none
BucketHit(lowered, i) ==
    \E keyword \in categories[i].keywords : Contains(lowered, keyword)

ExpectedGenre(preview) ==
    LET lowered == Lower(preview)
    IN IF BucketHit(lowered, 1) THEN s_Business
       ELSE IF BucketHit(lowered, 2) THEN s_Technology
       ELSE IF BucketHit(lowered, 3) THEN s_Science
       ELSE IF BucketHit(lowered, 4) THEN s_Education
       ELSE s_Document

\* the value a match supplies for a field (None when the key is absent)
Supplied(field) ==
    IF Processed /\ ~metadata[1].is_resume /\ FirstMatch # None
       /\ field \in DOMAIN FirstMatch[1]
    THEN Some(FirstMatch[1][field])
    ELSE None

SuppliedBlank(field) == Supplied(field) = Some(<<>>)

SuppliedBlankFirst(field) ==
    /\ Supplied(field) # None
    /\ Supplied(field)[1] # <<>>
    /\ Supplied(field)[1][1] = <<>>

C3_ResumeSkipsCatalog ==
    (Processed /\ metadata[1].is_resume) =>
        /\ requests = <<>>
        /\ catalog = None
        /\ book_data[1].genre = s_ResumeCV
        /\ book_data[1].thumbnail = Some(RESUME_ICON)
        /\ clicked => library[Len(library)] = book_data[1]

\* a resume with an embedded title and author has been added
C3_Witness ==
    /\ Processed /\ metadata[1].is_resume
    /\ uploaded_file[1].pdf.title = Some(t_Dune)
    /\ book_data[1].genre = s_ResumeCV
    /\ clicked /\ Len(library) = 1

\* C4: when the keyword fallback is used (not a resume, no catalog match)
\* the genre is the first of Business, Technology, Science, Education with a
\* keyword in the lowercased preview, "Document" when there is none, and
\* never "Other".
C4_FirstBucketWins ==
    (Processed /\ ~metadata[1].is_resume /\ LookupFailed) =>
        /\ book_data[1].genre = ExpectedGenre(metadata[1].content_preview)
        /\ book_data[1].genre # s_Other

\* a preview with "programming" before "Business" is classified Business
C4_Witness ==
    /\ Processed /\ ~metadata[1].is_resume /\ LookupFailed
    /\ metadata[1].content_preview = t_programming \o <<10>> \o t_Business
    /\ book_data[1].genre = s_Business

\* C5: for an upload that is not a resume, when the lookup fails, is
\* malformed or has no match, the run still completes with the keyword
\* classification of the preview, the local title and author unchanged, and
\* exactly one request sent.
C5_LookupFailureFallsBack ==
    (page = "Upload Books" /\ metadata # None /\ ~metadata[1].is_resume
     /\ LookupFailed) =>
        /\ book_data # None
        /\ book_data[1].title = metadata[1].title
        /\ book_data[1].author = metadata[1].author
        /\ book_data[1].genre = ExpectedGenre(metadata[1].content_preview)
        /\ book_data[1].description =
               Slice(metadata[1].content_preview, DescLen) \o s_Ellipsis
        /\ book_data[1].thumbnail =
               IF book_data[1].genre = s_Document
               THEN Some(DOCUMENT_ICON) ELSE None
        /\ Len(requests) = 1

\* a network error on a document with a Science keyword
C5_Witness ==
    /\ Processed /\ ~metadata[1].is_resume
    /\ catalog = Some(NetworkError)
    /\ book_data[1].genre = s_Science
    /\ book_data[1].title = t_Dune
    /\ Len(requests) = 1

\* C6 (as stated): for an upload that is not a resume whose lookup succeeds
\* with at least one match, the record takes the first match's title,
\* author, genre, description and thumbnail; a missing title or author is
\* the local one and the genre is "Uncategorized" whenever the match carries
\* no category.
C6_MatchUsedVerbatim ==
    (Processed /\ ~metadata[1].is_resume /\ FirstMatch # None) =>
        LET match == FirstMatch[1]
            authors == Get(match, "authors", <<>>)
            cats == Get(match, "categories", <<>>)
            links == Get(match, "imageLinks", EmptyDict)
        IN /\ book_data[1].title = Get(match, "title", metadata[1].title)
           /\ book_data[1].author =
                  IF authors # <<>> THEN authors[1] ELSE metadata[1].author
           /\ book_data[1].genre =
                  IF cats # <<>> THEN cats[1] ELSE s_Uncategorized
           /\ book_data[1].description =
                  Get(match, "description", s_NoDescription)
           /\ book_data[1].thumbnail =
                  IF "thumbnail" \in DOMAIN links
                  THEN Some(links["thumbnail"]) ELSE None

\* the same statement for the matches whose authors and categories lists,
\* when present, are not empty
C6_NonEmptyLists ==
    (FirstMatch # None
     /\ Get(FirstMatch[1], "authors", <<s_Unknown>>) # <<>>
     /\ Get(FirstMatch[1], "categories", <<s_Unknown>>) # <<>>)
        => C6_MatchUsedVerbatim

\* C10: for a resume the author is the stripped first line, among the first
\* three lines of the first page, that has at least two tokens and no digit;
\* when there is none it is the extractor's author, or "Unknown" when the
\* extractor has none.
C10_ResumeAuthor ==
    (Processed /\ metadata[1].is_resume) =>
        LET pdf == uploaded_file[1].pdf
            lines == SplitLines(pdf.page_text)
            named == {i \in 1..Len(lines) :
                         /\ i <= 3
                         /\ NumTokens(lines[i]) >= 2
                         /\ \A k \in 1..Len(lines[i]) : lines[i][k] \notin 48..57}
        IN /\ pdf.num_pages > 0
           /\ metadata[1].author =
                  IF named # {}
                  THEN Strip(lines[CHOOSE i \in named : \A j \in named : i <= j])
                  ELSE IF pdf.author # None /\ pdf.author[1] # <<>>
                       THEN pdf.author[1] ELSE s_Unknown
           /\ book_data[1].author = metadata[1].author

\* a first line with a digit is skipped and the padded second line is used
C10_Witness ==
    /\ Processed /\ metadata[1].is_resume
    /\ uploaded_file[1].pdf.page_text = t_2024CV \o <<10>> \o t_JaneDoe
    /\ uploaded_file[1].pdf.author = Some(t_FrankHerbert)
    /\ metadata[1].author = Strip(t_JaneDoe)
    /\ Len(metadata[1].author) < Len(t_JaneDoe)

----------------------------------------------------------------------------
(* Properties of the session (Spec, SpecRecommend) *)

\* the k-th smallest element of a set of indexes
Kth(K, k) == CHOOSE i \in K : Cardinality({j \in K : j <= i}) = k

\* the subsequence of books at the indexes K, in order
Pick(books, K) == [k \in 1..Cardinality(K) |-> books[Kth(K, k)]]

\* C2: the library is append-only: a step either leaves it as it is or is a
\* run of the Upload page in which "Add to Library" was clicked, and that run
\* appends exactly the displayed record at the end; every other run, and an
\* Upload run without the click, leaves every entry in place.
C2_AppendOnly ==
    [][/\ library' # library =>
            /\ page' = "Upload Books" /\ clicked' /\ book_data' # None
            /\ library' = Append(library, book_data'[1])
       /\ (page' = "Upload Books" /\ clicked') =>
            /\ Len(library') = Len(library) + 1
            /\ SubSeq(library', 1, Len(library)) = library
       /\ ~clicked' => library' = library]_vars

\* the My Library page shows a list ordered differently from the library
C2_Witness ==
    /\ page = "My Library"
    /\ Len(library) >= 2
    /\ search_query = Some(<<>>)
    /\ filtered_books # None
    /\ filtered_books[1] # library

\* the genres a session entry can carry, and one it cannot
SomeGenres == {s_ResumeCV, s_Technology, s_Document}

\* the entries of genre that are not value-equal to an earlier entry
FirstOfGenre(genre) ==
    {i \in 1..Len(library) :
        /\ library[i].genre = genre
        /\ \A j \in 1..(i - 1) : library[j] # library[i]}

\* C7: for every genre, get_recommendations(genre, library) has at most 3
\* entries, no two of them equal, each an entry of the library of that
\* genre: it is the first 3 of the library's entries of the genre, in library
\* order, once later value-equal duplicates are removed; and that is what the
\* Recommendations page holds for the favorite genre.
C7_Recommendations ==
    /\ \A genre \in SomeGenres :
          LET recs == get_recommendations(genre, library)
              K == FirstOfGenre(genre)
          IN /\ Len(recs) <= 3
             /\ \A i, j \in 1..Len(recs) : i # j => recs[i] # recs[j]
             /\ \A i \in 1..Len(recs) :
                   /\ recs[i].genre = genre
                   /\ \E j \in 1..Len(library) : library[j] = recs[i]
             /\ Len(recs) = Min(3, Cardinality(K))
             /\ \A k \in 1..Len(recs) : recs[k] = library[Kth(K, k)]
    /\ (page = "Recommendations" /\ library # <<>>) =>
          /\ recommendations # None
          /\ recommendations[1] =
                 get_recommendations(favorite_genre[1], library)

\* four different Technology entries are in the library and three are shown
C7_Witness ==
    /\ page = "Recommendations"
    /\ favorite_genre = Some(s_Technology)
    /\ Cardinality(FirstOfGenre(s_Technology)) = 4
    /\ Len(recommendations[1]) = 3

\* the query meets the title, the author or the genre of entry i, the case
\* of letters set aside
Meets(i, query) ==
    LET q == Lower(query)
    IN \/ Contains(Lower(library[i].title), q)
       \/ Contains(Lower(library[i].author), q)
       \/ Contains(Lower(library[i].genre), q)

\* b occurs in xs as often as in ys
SameCount(b, xs, ys) ==
    Cardinality({i \in 1..Len(xs) : xs[i] = b})
        = Cardinality({i \in 1..Len(ys) : ys[i] = b})

\* C8: the search returns, in library order, exactly the entries whose title,
\* author or genre contains the query case-insensitively, and the whole
\* library unchanged for the empty query; the My Library page shows those
\* entries and no others.
C8_Search ==
    /\ \A query \in Queries :
          LET K == {i \in 1..Len(library) : Meets(i, query)}
          IN /\ SearchBooks(library, query) = Pick(library, K)
             /\ query = <<>> => SearchBooks(library, query) = library
    /\ (page = "My Library" /\ library # <<>>) =>
          /\ filtered_books # None
          /\ LET found == SearchBooks(library, search_query[1])
             IN /\ Len(filtered_books[1]) = Len(found)
                /\ \A i \in 1..Len(found) :
                      SameCount(found[i], filtered_books[1], found)

\* "UN" finds "Unknown" or "Dune" and leaves the resume out
C8_Witness ==
    /\ page = "My Library"
    /\ search_query = Some(q_UN)
    /\ Len(library) = 3
    /\ Len(filtered_books[1]) = 2
    /\ \E i \in 1..3 : library[i].author = s_Unknown
    /\ \E i \in 1..3 : library[i].title = t_Dune
    /\ library[2].genre = s_ResumeCV

\* the number of entries of a genre, and the place of its first entry
CountOf(genre) == Cardinality({i \in 1..Len(library) : library[i].genre = genre})

FirstPlace(genre) ==
    CHOOSE i \in 1..Len(library) :
        /\ library[i].genre = genre
        /\ \A j \in 1..(i - 1) : library[j].genre # genre

\* C9: on the Recommendations page of a non-empty library the favorite genre
\* is a genre of the library that no genre outnumbers, and of the genres
\* with as many entries it is the one whose first entry comes first.
C9_FavoriteGenre ==
    (page = "Recommendations" /\ library # <<>>) =>
        /\ favorite_genre # None
        /\ CountOf(favorite_genre[1]) > 0
        /\ \A i \in 1..Len(library) :
              /\ CountOf(library[i].genre) <= CountOf(favorite_genre[1])
              /\ CountOf(library[i].genre) = CountOf(favorite_genre[1])
                    => FirstPlace(favorite_genre[1]) <= i

\* two genres have one entry each: the favorite is the genre met first
C9_Witness ==
    /\ page = "Recommendations"
    /\ Len(library) = 2
    /\ library[1].genre = s_Technology
    /\ library[2].genre = s_ResumeCV
    /\ favorite_genre = Some(s_Technology)

====
